---- MODULE Spec2Model ----
(***************************************************************************)
(* Model of the DeterministicFiniteAutomaton class of                      *)
(* examples/gallery/computer_science/finite_state_machine.ipynb.           *)
(*                                                                         *)
(* An automaton is the record stored by __init__.  One call of accepts is  *)
(* a stack frame with its own locals (string, the position of the for     *)
(* loop, current_state); a thread owns one frame at a time.  A finished    *)
(* call holds its outcome: a returned boolean or a raised exception.       *)
(***************************************************************************)
EXTENDS Integers, Sequences, FiniteSets, TLC

VARIABLES automaton, string, pos, current_state, pc, outcome, last

\* remove_prefix of the data preparation notebook: its argument, its local
\* and the outcome of the call
VARIABLES word, new_word, prefix_outcome

\* fetch_data of the bipartite network notebook: its argument and locals
\* (fetch_i and fetch_r are its i and r), its control position and outcome, the number of requests sent so far and
\* the result of each finished attempt
VARIABLES num_tries, fetch_i, fetch_r, data, fetch_pc, fetch_outcome, requests, attempts

\* plot_structure of the automaton class: the graph description it builds
VARIABLES data_jgf

\* The functions of the other gallery notebooks.  Each has one variable: the
\* frame of its call, a record of its arguments and locals under their own
\* names, to which pos (the position of a for loop in its sequence), pc (the
\* control position) and what the properties count are added.  A frame is
\* unbound in the specifications that do not run its function.
\*   tuples_frame:  text_to_k_tuples, with the list it returns
\*   solver_frame:  solver, with the number of calls of rhs_function
\*   digraph_frame: first_n_tuples_to_digraph, with the colour indices
\*                  computed so far and the kind of outcome of the call
VARIABLES tuples_frame, solver_frame, digraph_frame

dfaVars == <<automaton, string, pos, current_state, pc, outcome, last>>

prefixVars == <<word, new_word, prefix_outcome>>

fetchVars == <<num_tries, fetch_i, fetch_r, data, fetch_pc, fetch_outcome, requests, attempts>>

plotVars == <<data_jgf>>

galleryVars == <<plotVars, tuples_frame, solver_frame, digraph_frame>>

\* what a step of accepts leaves alone outside its own locals
elsewhere == <<prefixVars, fetchVars, galleryVars>>

vars == <<dfaVars, prefixVars, fetchVars, galleryVars>>

(***************************************************************************)
(* Bounds                                                                  *)
(***************************************************************************)
\* longest input string tried on the automata of the family
MaxLen == 3
\* longest input string tried on the example automaton m1
MaxLenM1 == 6
\* number of threads that may hold a frame of accepts
NumThreads == 2
\* longest input string tried when termination is checked
MaxLenFair == 2
\* longest input string of a call that runs concurrently with others
MaxLenConc == 2

Threads == 1..NumThreads
\* the thread that runs the notebook's cells
MainThread == 1

(***************************************************************************)
(* Values                                                                  *)
(***************************************************************************)
\* symbols an input string may be made of; "2" is in no alphabet below
InputSymbols == {"0", "1", "2"}

Strings(n) == UNION {[1..k -> InputSymbols] : k \in 0..n}

\* value of a local that has not been bound yet
Unbound == "unbound"

\* outcome of a call that has not finished
NoOutcome == [kind |-> "none", value |-> FALSE, args |-> <<>>]

Returned(b) == [kind |-> "return", value |-> b, args |-> <<>>]

Raised(exception, arguments) == [kind |-> exception, value |-> FALSE, args |-> arguments]

\* value of data_jgf before plot_structure has built a graph description:
\* a dict without keys
NoGraph == <<>>

\* nx.DiGraph(): no nodes, no edges; edges maps a pair of nodes to the
\* attributes of the edge between them
EmptyDiGraph == [nodes |-> {}, edges |-> <<>>]

\* str.format: every replacement field "{}" of the template is replaced by
\* the argument; a template without a replacement field is left as it is
StrFormat(template, arg) ==
    [i \in 1..Len(template) |-> IF template[i] = "{}" THEN arg ELSE template[i]]

\* the literal 'String contains invalid symbol: ' of line 54, by its parts:
\* it has no replacement field
InvalidSymbolTemplate == <<"String contains invalid symbol: ">>

(***************************************************************************)
(* Automata: the arguments of the constructor, stored as given             *)
(***************************************************************************)
DeterministicFiniteAutomaton(states, alphabet, transitions, start_state, accepting_states) ==
    [states |-> states, alphabet |-> alphabet, transitions |-> transitions,
     start_state |-> start_state, accepting_states |-> accepting_states]

m1Wrong ==
    DeterministicFiniteAutomaton(
        {"q0", "q1", "q2", "q3"},
        {"0", "1"},
        [q \in {"q0", "q1", "q2", "q3"} |->
            IF q = "q0" THEN ("0" :> "q0") @@ ("1" :> "q1")
            ELSE IF q = "q1" THEN ("0" :> "q0") @@ ("1" :> "q2")
            ELSE IF q = "q2" THEN ("0" :> "q0") @@ ("1" :> "q3")
            ELSE ("0" :> "q0") @@ ("1" :> "q3")],
        "q0",
        {"q2", "q3"})

m1 ==
    DeterministicFiniteAutomaton(
        {"q0", "q1", "q2", "q3"},
        {"0", "1"},
        [q \in {"q0", "q1", "q2", "q3"} |->
            IF q = "q0" THEN ("0" :> "q0") @@ ("1" :> "q1")
            ELSE IF q = "q1" THEN ("0" :> "q0") @@ ("1" :> "q2")
            ELSE IF q = "q2" THEN ("0" :> "q0") @@ ("1" :> "q3")
            ELSE ("0" :> "q0") @@ ("1" :> "q3")],
        "q0",
        {"q3"})

\* The constructor validates nothing, so the family holds automata with
\* missing rows, rows that lack a symbol, and a states set that does not
\* contain every state the table or start_state names.
FamilyLabels == {"q0", "q1"}

FamilyAlphabet == {"0", "1"}

FamilyRows == UNION {[D -> FamilyLabels] : D \in SUBSET FamilyAlphabet}

FamilyTables == UNION {[R -> FamilyRows] : R \in SUBSET FamilyLabels}

Automata ==
    {DeterministicFiniteAutomaton(Q, FamilyAlphabet, d, q0, F) :
        Q \in {FamilyLabels, {"q0"}}, d \in FamilyTables,
        q0 \in FamilyLabels, F \in SUBSET FamilyLabels}

(***************************************************************************)
(* accepts, lines 50-58                                                    *)
(***************************************************************************)
\* line 54: the message of the ValueError
InvalidSymbolMessage(symbol) == StrFormat(InvalidSymbolTemplate, symbol)

\* the key a failed lookup self.transitions[q][s] reports
MissingKey(a, q, s) == IF q \notin DOMAIN a.transitions THEN q ELSE s

\* lines 53-55, one pass of the loop body in state q on symbol s: the
\* exception it raises, or the state it assigns to current_state
LoopBodyLookupFirst(a, q, s) ==
    IF q \notin DOMAIN a.transitions \/ s \notin DOMAIN a.transitions[q]
    THEN [kind |-> "KeyError", state |-> q, args |-> <<MissingKey(a, q, s)>>]
    ELSE IF s \notin a.alphabet
    THEN [kind |-> "ValueError", state |-> q, args |-> InvalidSymbolMessage(s)]
    ELSE [kind |-> "next", state |-> a.transitions[q][s], args |-> <<>>]

LoopBodyNoCheck(a, q, s) ==
    IF q \notin DOMAIN a.transitions \/ s \notin DOMAIN a.transitions[q]
    THEN [kind |-> "KeyError", state |-> q, args |-> <<MissingKey(a, q, s)>>]
    ELSE [kind |-> "next", state |-> a.transitions[q][s], args |-> <<>>]

LoopBodyDefault(a, q, s) ==
    IF s \notin a.alphabet
    THEN [kind |-> "ValueError", state |-> q, args |-> InvalidSymbolMessage(s)]
    ELSE IF q \notin DOMAIN a.transitions \/ s \notin DOMAIN a.transitions[q]
    THEN [kind |-> "next", state |-> q, args |-> <<>>]
    ELSE [kind |-> "next", state |-> a.transitions[q][s], args |-> <<>>]

LoopBodySkipInvalid(a, q, s) ==
    IF s \notin a.alphabet
    THEN [kind |-> "next", state |-> q, args |-> <<>>]
    ELSE IF q \notin DOMAIN a.transitions \/ s \notin DOMAIN a.transitions[q]
    THEN [kind |-> "KeyError", state |-> q, args |-> <<MissingKey(a, q, s)>>]
    ELSE [kind |-> "next", state |-> a.transitions[q][s], args |-> <<>>]

LoopBodyFromStart(a, q, s) ==
    IF s \notin a.alphabet
    THEN [kind |-> "ValueError", state |-> q, args |-> InvalidSymbolMessage(s)]
    ELSE IF a.start_state \notin DOMAIN a.transitions
            \/ s \notin DOMAIN a.transitions[a.start_state]
    THEN [kind |-> "KeyError", state |-> q, args |-> <<MissingKey(a, a.start_state, s)>>]
    ELSE [kind |-> "next", state |-> a.transitions[a.start_state][s], args |-> <<>>]

LoopBodyEager(a, q, s) ==
    IF s \notin a.alphabet
    THEN [kind |-> "ValueError", state |-> q, args |-> InvalidSymbolMessage(s)]
    ELSE IF \E q2 \in a.states \cup {q} : \E s2 \in a.alphabet :
                q2 \notin DOMAIN a.transitions \/ s2 \notin DOMAIN a.transitions[q2]
    THEN [kind |-> "KeyError", state |-> q, args |-> <<MissingKey(a, q, s)>>]
    ELSE [kind |-> "next", state |-> a.transitions[q][s], args |-> <<>>]

LoopBodyAssignsSymbol(a, q, s) ==
    IF s \notin a.alphabet
    THEN [kind |-> "ValueError", state |-> q, args |-> InvalidSymbolMessage(s)]
    ELSE IF q \notin DOMAIN a.transitions \/ s \notin DOMAIN a.transitions[q]
    THEN [kind |-> "KeyError", state |-> q, args |-> <<MissingKey(a, q, s)>>]
    ELSE [kind |-> "next", state |-> s, args |-> <<>>]

LoopBody(a, q, s) ==
    IF s \notin a.alphabet
    THEN [kind |-> "ValueError", state |-> q, args |-> InvalidSymbolMessage(s)]
    ELSE IF q \notin DOMAIN a.transitions \/ s \notin DOMAIN a.transitions[q]
    THEN [kind |-> "KeyError", state |-> q, args |-> <<MissingKey(a, q, s)>>]
    ELSE [kind |-> "next", state |-> a.transitions[q][s], args |-> <<>>]

\* lines 56-58
ReturnValueInStates(a, q) == q \in a.states

ReturnValue(a, q) == q \in a.accepting_states

\* lines 50-58 as a function of the automaton and the string: the outcome of
\* a call that starts in a new frame; AcceptsFrom is the loop from position i
\* on with current_state = q
RECURSIVE AcceptsFrom(_, _, _, _)
AcceptsFrom(a, q, w, i) ==
    IF i > Len(w) THEN Returned(ReturnValue(a, q))
    ELSE IF LoopBody(a, q, w[i]).kind = "next"
    THEN AcceptsFrom(a, LoopBody(a, q, w[i]).state, w, i + 1)
    ELSE Raised(LoopBody(a, q, w[i]).kind, LoopBody(a, q, w[i]).args)

accepts(a, w) == AcceptsFrom(a, a.start_state, w, 1)

\* the for loop of line 52 has a symbol left
HasNext(t) == pos[t] <= Len(string[t])

Symbol(t) == string[t][pos[t]]

\* lines 50-51: a thread that is not inside accepts calls it with string w
CallKeepState(t, w) ==
    /\ pc[t] \in {"idle", "done"}
    /\ string' = [string EXCEPT ![t] = w]
    /\ pos' = [pos EXCEPT ![t] = 1]
    /\ current_state' = [current_state EXCEPT
            ![t] = IF @ = Unbound THEN automaton.start_state ELSE @]
    /\ pc' = [pc EXCEPT ![t] = "loop"]
    /\ outcome' = [outcome EXCEPT ![t] = NoOutcome]
    /\ last' = [last EXCEPT
            ![t] = IF pc[t] = "done" /\ string[t] = w THEN outcome[t] ELSE NoOutcome]
    /\ UNCHANGED automaton
    /\ UNCHANGED elsewhere

Call(t, w) ==
    /\ pc[t] \in {"idle", "done"}
    /\ string' = [string EXCEPT ![t] = w]
    /\ pos' = [pos EXCEPT ![t] = 1]
    /\ current_state' = [current_state EXCEPT ![t] = automaton.start_state]
    /\ pc' = [pc EXCEPT ![t] = "loop"]
    /\ outcome' = [outcome EXCEPT ![t] = NoOutcome]
    /\ last' = [last EXCEPT
            ![t] = IF pc[t] = "done" /\ string[t] = w THEN outcome[t] ELSE NoOutcome]
    /\ UNCHANGED automaton
    /\ UNCHANGED elsewhere

TransitionNoAdvance(t) ==
    /\ pc[t] = "loop"
    /\ HasNext(t)
    /\ LoopBody(automaton, current_state[t], Symbol(t)).kind = "next"
    /\ current_state' = [current_state EXCEPT
            ![t] = LoopBody(automaton, current_state[t], Symbol(t)).state]
    /\ UNCHANGED <<automaton, string, pos, pc, outcome, last>>
    /\ UNCHANGED elsewhere

TransitionShared(t) ==
    /\ pc[t] = "loop"
    /\ HasNext(t)
    /\ LoopBody(automaton, current_state[t], Symbol(t)).kind = "next"
    /\ current_state' = [u \in Threads |->
            LoopBody(automaton, current_state[t], Symbol(t)).state]
    /\ pos' = [pos EXCEPT ![t] = @ + 1]
    /\ UNCHANGED <<automaton, string, pc, outcome, last>>
    /\ UNCHANGED elsewhere

TransitionStoresState(t) ==
    /\ pc[t] = "loop"
    /\ HasNext(t)
    /\ LoopBody(automaton, current_state[t], Symbol(t)).kind = "next"
    /\ current_state' = [current_state EXCEPT
            ![t] = LoopBody(automaton, current_state[t], Symbol(t)).state]
    /\ automaton' = [automaton EXCEPT
            !.start_state = LoopBody(automaton, current_state[t], Symbol(t)).state]
    /\ pos' = [pos EXCEPT ![t] = @ + 1]
    /\ UNCHANGED <<string, pc, outcome, last>>
    /\ UNCHANGED elsewhere

\* lines 52-55: the loop body assigns the next state
Transition(t) ==
    /\ pc[t] = "loop"
    /\ HasNext(t)
    /\ LoopBody(automaton, current_state[t], Symbol(t)).kind = "next"
    /\ current_state' = [current_state EXCEPT
            ![t] = LoopBody(automaton, current_state[t], Symbol(t)).state]
    /\ pos' = [pos EXCEPT ![t] = @ + 1]
    /\ UNCHANGED <<automaton, string, pc, outcome, last>>
    /\ UNCHANGED elsewhere

\* lines 53-54: the symbol is not in the alphabet
RaiseValueError(t) ==
    /\ pc[t] = "loop"
    /\ HasNext(t)
    /\ LoopBody(automaton, current_state[t], Symbol(t)).kind = "ValueError"
    /\ outcome' = [outcome EXCEPT
            ![t] = Raised("ValueError", LoopBody(automaton, current_state[t], Symbol(t)).args)]
    /\ pc' = [pc EXCEPT ![t] = "done"]
    /\ UNCHANGED <<automaton, string, pos, current_state, last>>
    /\ UNCHANGED elsewhere

\* line 55: the nested mapping has no entry for (current_state, symbol)
RaiseKeyError(t) ==
    /\ pc[t] = "loop"
    /\ HasNext(t)
    /\ LoopBody(automaton, current_state[t], Symbol(t)).kind = "KeyError"
    /\ outcome' = [outcome EXCEPT
            ![t] = Raised("KeyError", LoopBody(automaton, current_state[t], Symbol(t)).args)]
    /\ pc' = [pc EXCEPT ![t] = "done"]
    /\ UNCHANGED <<automaton, string, pos, current_state, last>>
    /\ UNCHANGED elsewhere

ReturnOnAccepting(t) ==
    /\ pc[t] = "loop"
    /\ ~HasNext(t) \/ current_state[t] \in automaton.accepting_states
    /\ outcome' = [outcome EXCEPT ![t] = Returned(ReturnValue(automaton, current_state[t]))]
    /\ pc' = [pc EXCEPT ![t] = "done"]
    /\ UNCHANGED <<automaton, string, pos, current_state, last>>
    /\ UNCHANGED elsewhere

\* lines 56-58: the loop is exhausted
Return(t) ==
    /\ pc[t] = "loop"
    /\ ~HasNext(t)
    /\ outcome' = [outcome EXCEPT ![t] = Returned(ReturnValue(automaton, current_state[t]))]
    /\ pc' = [pc EXCEPT ![t] = "done"]
    /\ UNCHANGED <<automaton, string, pos, current_state, last>>
    /\ UNCHANGED elsewhere

Locals ==
    /\ string = [t \in Threads |-> <<>>]
    /\ pos = [t \in Threads |-> 1]
    /\ current_state = [t \in Threads |-> Unbound]
    /\ pc = [t \in Threads |-> "idle"]
    /\ outcome = [t \in Threads |-> NoOutcome]
    /\ last = [t \in Threads |-> NoOutcome]

\* the other notebooks' functions have not been called
PrefixIdle ==
    /\ word = Unbound
    /\ new_word = Unbound
    /\ prefix_outcome = NoOutcome

FetchIdle ==
    /\ num_tries = 0
    /\ fetch_i = 0
    /\ fetch_r = Unbound
    /\ data = Unbound
    /\ fetch_pc = "idle"
    /\ fetch_outcome = NoOutcome
    /\ requests = 0
    /\ attempts = <<>>

PlotIdle == data_jgf = NoGraph

\* the frames before any call of their functions
TuplesIdle == tuples_frame = [text |-> <<>>, k |-> 0, result |-> <<>>]

SolverIdle ==
    solver_frame =
        [rhs_function |-> Unbound, state_start |-> <<>>, num_steps |-> 0,
         time_sequence |-> <<>>, state_sequence |-> <<>>, state |-> <<>>,
         pos |-> 1, pc |-> "idle", rhs_calls |-> 0]

DigraphIdle ==
    digraph_frame =
        [tuples |-> <<>>, n |-> 0, n_tenth |-> <<0, 1>>, used_tuples |-> <<>>,
         i |-> 0, graph |-> EmptyDiGraph, color_indices |-> <<>>,
         pc |-> "idle", outcome |-> "none"]

\* no gallery function is part of the specification
GalleryIdle ==
    /\ PlotIdle
    /\ tuples_frame = Unbound
    /\ solver_frame = Unbound
    /\ digraph_frame = Unbound

(***************************************************************************)
(* Spec: any automaton of the family, calls made one after another by the  *)
(* main thread                                                             *)
(***************************************************************************)
Init ==
    /\ automaton \in Automata
    /\ Locals
    /\ PrefixIdle
    /\ FetchIdle
    /\ GalleryIdle

Next ==
    \/ \E w \in Strings(MaxLen) : Call(MainThread, w)
    \/ Transition(MainThread)
    \/ RaiseValueError(MainThread)
    \/ RaiseKeyError(MainThread)
    \/ Return(MainThread)

Spec == Init /\ [][Next]_vars

\* SpecFair: a call that has begun keeps executing; accepts has no blocking
\* operation, so the interpreter always takes the next step of the frame
Running(t) ==
    \/ Transition(t)
    \/ RaiseValueError(t)
    \/ RaiseKeyError(t)
    \/ Return(t)

NextFair ==
    \/ \E w \in Strings(MaxLenFair) : Call(MainThread, w)
    \/ Transition(MainThread)
    \/ RaiseValueError(MainThread)
    \/ RaiseKeyError(MainThread)
    \/ Return(MainThread)

SpecFair == Init /\ [][NextFair]_vars /\ WF_vars(Running(MainThread))

(***************************************************************************)
(* SpecM1: the notebook's automaton m1                                     *)
(***************************************************************************)
InitM1 ==
    /\ automaton = m1
    /\ Locals
    /\ PrefixIdle
    /\ FetchIdle
    /\ GalleryIdle

\* m1 has a row for each of its states and an entry for each symbol of its
\* alphabet in every row, so the lookup of line 55 cannot fail on it
\* (M1LookupNeverFails) and the step that raises KeyError is left out.
NextM1 ==
    \/ \E w \in Strings(MaxLenM1) : Call(MainThread, w)
    \/ Transition(MainThread)
    \/ RaiseValueError(MainThread)
    \/ Return(MainThread)

SpecM1 == InitM1 /\ [][NextM1]_vars

(***************************************************************************)
(* SpecConc: every thread calls accepts once on the same automaton and the *)
(* steps of the calls interleave freely; nothing is locked                 *)
(***************************************************************************)
\* the automata of the family with start q0, accepting {q1} and the row
\* q0: {0 -> q0, 1 -> q1}, in which q1 has no row or the row {0 -> q1, 1 -> q0}
ConcAutomata ==
    {a \in Automata :
        /\ a.states = FamilyLabels
        /\ a.start_state = "q0"
        /\ a.accepting_states = {"q1"}
        /\ "q0" \in DOMAIN a.transitions
        /\ DOMAIN a.transitions["q0"] = FamilyAlphabet
        /\ a.transitions["q0"]["0"] = "q0"
        /\ a.transitions["q0"]["1"] = "q1"
        /\ "q1" \in DOMAIN a.transitions =>
                a.transitions["q1"] = [s \in FamilyAlphabet |-> IF s = "0" THEN "q1" ELSE "q0"]}

InitConc ==
    /\ automaton \in ConcAutomata
    /\ Locals
    /\ PrefixIdle
    /\ FetchIdle
    /\ GalleryIdle

NextConc ==
    \E t \in Threads :
        \/ \E w \in Strings(MaxLenConc) : pc[t] = "idle" /\ Call(t, w)
        \/ Transition(t)
        \/ RaiseValueError(t)
        \/ RaiseKeyError(t)
        \/ Return(t)

SpecConc == InitConc /\ [][NextConc]_vars

M1LookupNeverFails ==
    \A t \in Threads :
        (pc[t] = "loop" /\ HasNext(t))
        => LoopBody(automaton, current_state[t], Symbol(t)).kind # "KeyError"

TypeOK ==
    /\ automaton \in Automata \cup {m1}
    /\ \A t \in Threads :
        /\ pc[t] \in {"idle", "loop", "done"}
        /\ pos[t] \in 1..(Len(string[t]) + 1)
        /\ outcome[t].kind \in {"none", "return", "ValueError", "KeyError"}

(***************************************************************************)
(* remove_prefix, lines 75-84 of the data preparation notebook.  A word is *)
(* the sequence of its characters.                                         *)
(***************************************************************************)
\* longest remainder after the prefix in the words tried
MaxTailLen == 3

\* line 76
prefix1 == <<"u", "n", "i", "p", "r", "o", "t", "k", "b", ":">>

\* line 77
prefix2 == <<"e", "n", "s", "e", "m", "b", "l", ":">>

\* characters of the remainders: two that occur in 'uniprotkb:' and two that
\* do not
TailChars == {"P", "4", "b", "o"}

Tails == UNION {[1..k -> TailChars] : k \in 0..MaxTailLen}

\* words with the first prefix, with the second, with the first prefix less
\* its colon, and without any of them
Words ==
    {prefix1 \o t : t \in Tails} \cup {prefix2 \o t : t \in Tails}
        \cup {SubSeq(prefix1, 1, 9) \o t : t \in Tails} \cup Tails

\* str.startswith
StartsWith(w, prefix) ==
    /\ Len(w) >= Len(prefix)
    /\ SubSeq(w, 1, Len(prefix)) = prefix

\* the set of characters of a string
Chars(w) == {w[k] : k \in 1..Len(w)}

\* str.lstrip(chars): the string without its leading characters that occur
\* in chars, which is read as a set of characters and not as a prefix
RECURSIVE LStrip(_, _)
LStrip(w, chars) ==
    IF w # <<>> /\ Head(w) \in Chars(chars) THEN LStrip(Tail(w), chars) ELSE w

PrefixReturned(w) == [kind |-> "return", value |-> w, args |-> <<>>]

\* lines 76-84
remove_prefix(w) ==
    IF StartsWith(w, prefix1) THEN PrefixReturned(LStrip(w, prefix1))
    ELSE IF StartsWith(w, prefix2) THEN PrefixReturned(w)
    ELSE Raised("ValueError", <<<<"Word does not contain any accepted prefix:">>, w>>)

\* line 87: the notebook calls remove_prefix on a word of a column
RemovePrefix(w) ==
    /\ word' = w
    /\ new_word' = IF remove_prefix(w).kind = "return" THEN remove_prefix(w).value ELSE Unbound
    /\ prefix_outcome' = remove_prefix(w)
    /\ UNCHANGED <<dfaVars, fetchVars, galleryVars>>

InitPrefix ==
    /\ automaton = m1
    /\ Locals
    /\ PrefixIdle
    /\ FetchIdle
    /\ GalleryIdle

NextPrefix == \E w \in Words : RemovePrefix(w)

SpecPrefix == InitPrefix /\ [][NextPrefix]_vars

(***************************************************************************)
(* fetch_data, lines 55-84 of the bipartite network notebook.  An attempt  *)
(* is one pass of the for loop: requests.get, which returns a response or  *)
(* raises, then r.json(), which decodes the body or raises.                *)
(***************************************************************************)
\* largest num_tries tried
MaxTries == 4

\* bodies a response may carry: two JSON documents and a page that is not JSON
Bodies == {"json_a", "json_b", "html"}

\* r.json(): the body decodes
Decodable(body) == body \in {"json_a", "json_b"}

\* r.json(): the decoded value
Json(body) == IF body = "json_a" THEN "bindings_a" ELSE "bindings_b"

FetchReturned(d) == [kind |-> "return", value |-> d, args |-> <<>>]

FetchRaised(exception, arguments) ==
    [kind |-> exception, value |-> Unbound, args |-> arguments]

\* line 55: a call; range(num_tries) will yield 0 .. num_tries - 1
FetchCall(n) ==
    /\ fetch_pc \in {"idle", "done"}
    /\ num_tries' = n
    /\ fetch_i' = 0
    /\ fetch_r' = Unbound
    /\ data' = Unbound
    /\ fetch_pc' = "for"
    /\ fetch_outcome' = NoOutcome
    /\ requests' = 0
    /\ attempts' = <<>>
    /\ UNCHANGED <<dfaVars, prefixVars, galleryVars>>

\* lines 74-77: the loop yields an index and requests.get returns a response
GetSucceeds(body) ==
    /\ fetch_pc = "for"
    /\ fetch_i < num_tries
    /\ requests' = requests + 1
    /\ fetch_r' = body
    /\ fetch_pc' = "json"
    /\ UNCHANGED <<num_tries, fetch_i, data, fetch_outcome, attempts>>
    /\ UNCHANGED <<dfaVars, prefixVars, galleryVars>>

\* lines 74-77, 80-81: requests.get raises, the exception is passed over and
\* the loop goes on
GetRaises ==
    /\ fetch_pc = "for"
    /\ fetch_i < num_tries
    /\ requests' = requests + 1
    /\ attempts' = Append(attempts, "get_failed")
    /\ fetch_i' = fetch_i + 1
    /\ UNCHANGED <<num_tries, fetch_r, data, fetch_pc, fetch_outcome>>
    /\ UNCHANGED <<dfaVars, prefixVars, galleryVars>>

JsonSucceedsNoBreak ==
    /\ fetch_pc = "json"
    /\ Decodable(fetch_r)
    /\ data' = Json(fetch_r)
    /\ attempts' = Append(attempts, "ok")
    /\ fetch_i' = fetch_i + 1
    /\ fetch_pc' = "for"
    /\ UNCHANGED <<num_tries, fetch_r, fetch_outcome, requests>>
    /\ UNCHANGED <<dfaVars, prefixVars, galleryVars>>

\* lines 78-79, 84: the body decodes, the loop is left and data is returned
JsonSucceeds ==
    /\ fetch_pc = "json"
    /\ Decodable(fetch_r)
    /\ data' = Json(fetch_r)
    /\ attempts' = Append(attempts, "ok")
    /\ fetch_outcome' = FetchReturned(Json(fetch_r))
    /\ fetch_pc' = "done"
    /\ UNCHANGED <<num_tries, fetch_i, fetch_r, requests>>
    /\ UNCHANGED <<dfaVars, prefixVars, galleryVars>>

\* lines 78, 80-81: r.json() raises, the exception is passed over and the
\* loop goes on
JsonRaises ==
    /\ fetch_pc = "json"
    /\ ~Decodable(fetch_r)
    /\ attempts' = Append(attempts, "json_failed")
    /\ fetch_i' = fetch_i + 1
    /\ fetch_pc' = "for"
    /\ UNCHANGED <<num_tries, fetch_r, data, fetch_outcome, requests>>
    /\ UNCHANGED <<dfaVars, prefixVars, galleryVars>>

FetchExhaustedReturns ==
    /\ fetch_pc = "for"
    /\ fetch_i >= num_tries
    /\ fetch_outcome' = FetchReturned(data)
    /\ fetch_pc' = "done"
    /\ UNCHANGED <<num_tries, fetch_i, fetch_r, data, requests, attempts>>
    /\ UNCHANGED <<dfaVars, prefixVars, galleryVars>>

\* lines 82-83: the loop ran out without break
FetchExhausted ==
    /\ fetch_pc = "for"
    /\ fetch_i >= num_tries
    /\ fetch_outcome' = FetchRaised("ValueError", <<"Data fetching failed.">>)
    /\ fetch_pc' = "done"
    /\ UNCHANGED <<num_tries, fetch_i, fetch_r, data, requests, attempts>>
    /\ UNCHANGED <<dfaVars, prefixVars, galleryVars>>

InitFetch ==
    /\ automaton = m1
    /\ Locals
    /\ PrefixIdle
    /\ FetchIdle
    /\ GalleryIdle

NextFetch ==
    \/ \E n \in 0..MaxTries : FetchCall(n)
    \/ \E body \in Bodies : GetSucceeds(body)
    \/ GetRaises
    \/ JsonSucceeds
    \/ JsonRaises
    \/ FetchExhausted

SpecFetch == InitFetch /\ [][NextFetch]_vars

(***************************************************************************)
(* plot_structure, lines 60-91: the graph description handed to the        *)
(* plotting function.  A dict is a record or a function from its keys.     *)
(***************************************************************************)
hidden_start_node == [id |-> "__start", label |-> "", metadata |-> [size |-> "0"]]

\* the metadata of an accepting state's node; the number 1.5 is kept as the
\* text of its literal
AcceptingBorder == [border_size |-> "1.5", border_color |-> "black"]

\* variant: no node is marked
NodeUnmarked(a, state) == [id |-> state, label |-> state]

\* the node appended for one state, lines 65-69
Node(a, state) ==
    IF state \in a.accepting_states
    THEN [id |-> state, label |-> state, metadata |-> AcceptingBorder]
    ELSE [id |-> state, label |-> state]

\* the orders in which a for loop can visit the elements of a set
Orders(S) ==
    {o \in [1..Cardinality(S) -> S] : \A x \in S : \E j \in 1..Cardinality(S) : o[j] = x}

Nodes(a, order) ==
    <<hidden_start_node>> \o [j \in 1..Len(order) |-> Node(a, order[j])]

hidden_start_edge(a) == [source |-> "__start", target |-> a.start_state, label |-> ""]

\* the keys of a dict in the order in which items() yields them; a dict
\* yields its keys in one fixed order
RECURSIVE KeysOf(_)
KeysOf(D) ==
    IF D = {} THEN <<>>
    ELSE LET first == CHOOSE x \in D : TRUE IN <<first>> \o KeysOf(D \ {first})

\* the edges appended by the inner loop for one row of the table
RowEdges(source, values) ==
    LET labels == KeysOf(DOMAIN values)
    IN  [j \in 1..Len(labels) |->
            [source |-> source, target |-> values[labels[j]], label |-> labels[j]]]

RECURSIVE TableEdges(_, _)
TableEdges(transitions, sources) ==
    IF sources = <<>> THEN <<>>
    ELSE RowEdges(Head(sources), transitions[Head(sources)])
            \o TableEdges(transitions, Tail(sources))

Edges(a) ==
    <<hidden_start_edge(a)>> \o TableEdges(a.transitions, KeysOf(DOMAIN a.transitions))

GraphMetadata ==
    [node_size |-> 20, node_color |-> "green", node_label_color |-> "green",
     edge_label_size |-> 10, edge_label_color |-> "blue"]

DataJgf(a, order) ==
    [graph |-> [directed |-> TRUE, metadata |-> GraphMetadata,
                nodes |-> Nodes(a, order), edges |-> Edges(a)]]

\* one call of plot_structure; order is the order in which the loop of
\* line 64 visits the set self.states
PlotStructure(order) ==
    /\ data_jgf' = DataJgf(automaton, order)
    /\ UNCHANGED <<dfaVars, prefixVars, fetchVars, tuples_frame, solver_frame, digraph_frame>>

(***************************************************************************)
(* SpecPlot: plot_structure on the automata of the family and on m1        *)
(***************************************************************************)
InitPlot ==
    /\ automaton \in Automata \cup {m1}
    /\ Locals
    /\ PrefixIdle
    /\ FetchIdle
    /\ GalleryIdle

NextPlot == \E order \in Orders(automaton.states) : PlotStructure(order)

SpecPlot == InitPlot /\ [][NextPlot]_vars

(***************************************************************************)
(* text_to_k_tuples of the mathematical constants notebook.  A text is the *)
(* sequence of its characters.                                             *)
(***************************************************************************)
\* most digits after the separator, and largest k
MaxDigits == 5
MaxK == 3

Digits == {"1", "4"}

\* the content of a constants file: one digit, the separator, the digits
\* after it
Texts == {<<"3", ".">> \o ds : ds \in UNION {[1..m -> Digits] : m \in 0..MaxDigits}}

Min(x, y) == IF x <= y THEN x ELSE y

\* list(range(start, stop, step)) for step >= 1
Range(start, stop, step) ==
    LET count == IF stop <= start THEN 0 ELSE (stop - start + step - 1) \div step
    IN  [j \in 1..count |-> start + (j - 1) * step]

\* s[lo:hi] for 0 <= lo <= hi: indices count from 0, hi is excluded, and a
\* bound beyond the end is cut to the end
Slice(s, lo, hi) == SubSeq(s, Min(lo, Len(s)) + 1, Min(hi, Len(s)))

text_to_k_tuples(t, k) ==
    LET starts == Range(2, Len(t), k)
    IN  [j \in 1..Len(starts) |-> Slice(t, starts[j], starts[j] + k)]

TextToKTuples(t, k) ==
    /\ tuples_frame' = [text |-> t, k |-> k, result |-> text_to_k_tuples(t, k)]
    /\ UNCHANGED <<dfaVars, prefixVars, fetchVars, plotVars, solver_frame, digraph_frame>>

InitTuples ==
    /\ automaton = m1
    /\ Locals
    /\ PrefixIdle
    /\ FetchIdle
    /\ PlotIdle
    /\ TuplesIdle
    /\ solver_frame = Unbound
    /\ digraph_frame = Unbound

NextTuples == \E t \in Texts, k \in 1..MaxK : TextToKTuples(t, k)

SpecTuples == InitTuples /\ [][NextTuples]_vars

(***************************************************************************)
(* solver of the discrete dynamical systems notebook, lines 34-42.  A      *)
(* state is the tuple of its components.  The maps of the notebook work on *)
(* floating point pairs; here a right-hand side is one of two maps of      *)
(* pairs of residues, which is all that solver needs of it: a function     *)
(* from a state to the next state.                                         *)
(***************************************************************************)
\* largest num_steps, and the number of values of a state component
MaxSteps == 4
Modulus == 3

RhsFunctions == {"swap_map", "sum_map"}

StartStates == (0..(Modulus - 1)) \X (0..(Modulus - 1))

\* rhs_function(*state): the components are the arguments, the result is
\* the tuple of the new components
ApplyRhs(f, s) ==
    IF f = "swap_map" THEN <<s[2], s[1]>>
    ELSE <<(s[1] + s[2]) % Modulus, s[1]>>

\* list(zip(*rows)): one tuple per component, as long as rows; zip stops at
\* the shortest row
Zip(rows) ==
    LET width == CHOOSE m \in {Len(rows[j]) : j \in 1..Len(rows)} :
                     \A j \in 1..Len(rows) : m <= Len(rows[j])
    IN  IF rows = <<>> THEN <<>>
        ELSE [c \in 1..width |-> [j \in 1..Len(rows) |-> rows[j][c]]]

\* time_sequence[1:], the sequence the for loop runs over
LoopSequence == Slice(solver_frame.time_sequence, 1, Len(solver_frame.time_sequence))

\* lines 35-37
SolverCall(f, s, steps) ==
    /\ solver_frame.pc \in {"idle", "done"}
    /\ solver_frame' =
            [rhs_function |-> f, state_start |-> s, num_steps |-> steps,
             time_sequence |-> Range(0, steps, 1), state_sequence |-> <<s>>,
             state |-> s, pos |-> 1, pc |-> "loop", rhs_calls |-> 0]
    /\ UNCHANGED <<dfaVars, prefixVars, fetchVars, plotVars, tuples_frame, digraph_frame>>

\* one pass of the loop, lines 38-40
SolverStep ==
    /\ solver_frame.pc = "loop"
    /\ solver_frame.pos <= Len(LoopSequence)
    /\ LET state == ApplyRhs(solver_frame.rhs_function, solver_frame.state)
       IN  solver_frame' =
               [solver_frame EXCEPT !.state = state,
                                    !.rhs_calls = @ + 1,
                                    !.state_sequence = Append(@, state),
                                    !.pos = @ + 1]
    /\ UNCHANGED <<dfaVars, prefixVars, fetchVars, plotVars, tuples_frame, digraph_frame>>

\* the loop is exhausted, lines 41-42: the pair of time_sequence and
\* state_sequence is returned
SolverReturn ==
    /\ solver_frame.pc = "loop"
    /\ solver_frame.pos > Len(LoopSequence)
    /\ solver_frame' = [solver_frame EXCEPT !.state_sequence = Zip(@), !.pc = "done"]
    /\ UNCHANGED <<dfaVars, prefixVars, fetchVars, plotVars, tuples_frame, digraph_frame>>

InitSolver ==
    /\ automaton = m1
    /\ Locals
    /\ PrefixIdle
    /\ FetchIdle
    /\ PlotIdle
    /\ tuples_frame = Unbound
    /\ SolverIdle
    /\ digraph_frame = Unbound

NextSolver ==
    \/ \E f \in RhsFunctions, s \in StartStates, steps \in 0..MaxSteps : SolverCall(f, s, steps)
    \/ SolverStep
    \/ SolverReturn

SpecSolver == InitSolver /\ [][NextSolver]_vars

(***************************************************************************)
(* first_n_tuples_to_digraph of the mathematical constants notebook, lines *)
(* 55-66 and 101-106.  The graph keeps its nodes and, per edge, the colour *)
(* attribute; the passes after the loop add size and position attributes   *)
(* and leave the colours alone.  n / 10 is the fraction <<n, 10>>: a       *)
(* quotient is a pair of numerator and denominator, and int() cuts it      *)
(* towards zero.                                                           *)
(***************************************************************************)
\* largest n, and longest list of tuples
MaxN == 20
MaxTuples == 21

colors_RdBu ==
    <<"#67001f", "#b2182b", "#d6604d", "#f4a582", "#fddbc7",
      "#d1e5f0", "#92c5de", "#4393c3", "#2166ac", "#053061">>

TuplePool == <<"141", "592", "653">>

\* lists of tuples: every length up to MaxTuples, the entries running
\* through the first one, two or three tuples of the pool in turn
TupleLists ==
    {[j \in 1..len |-> TuplePool[((j - 1) % period) + 1]] :
        len \in 0..MaxTuples, period \in 1..Len(TuplePool)}

\* x / y for integers x and y
Fraction(x, y) == <<x, y>>

\* x / r for an integer x and a fraction r
DivideBy(x, r) == <<x * r[2], r[1]>>

\* int(r) for a fraction r with a positive denominator
IntOf(r) == IF r[1] >= 0 THEN r[1] \div r[2] ELSE -((-r[1]) \div r[2])

\* variant: every tuple is used
UsedTuplesAll(ts, n) == ts

\* tuples[:n], line 61
UsedTuples(ts, n) == Slice(ts, 0, n)

\* the number of pairs of zip(used_tuples, used_tuples[1:])
NumPairs ==
    IF Len(digraph_frame.used_tuples) = 0 THEN 0 ELSE Len(digraph_frame.used_tuples) - 1

\* lines 56-61
DigraphCall(ts, n) ==
    /\ digraph_frame.pc \in {"idle", "done"}
    /\ digraph_frame' =
            [tuples |-> ts, n |-> n, n_tenth |-> Fraction(n, 10),
             used_tuples |-> UsedTuples(ts, n), i |-> 0, graph |-> EmptyDiGraph,
             color_indices |-> <<>>, pc |-> "loop", outcome |-> "none"]
    /\ UNCHANGED <<dfaVars, prefixVars, fetchVars, plotVars, tuples_frame, solver_frame>>

\* one pass of the loop, lines 62-66: the nodes and the edge are added, then
\* the colour is looked up; a list of 10 entries takes the indices -10..9,
\* any other index raises IndexError and ends the call
DigraphStep ==
    /\ digraph_frame.pc = "loop"
    /\ digraph_frame.i < NumPairs
    /\ LET graph == digraph_frame.graph
           t1 == digraph_frame.used_tuples[digraph_frame.i + 1]
           t2 == digraph_frame.used_tuples[digraph_frame.i + 2]
           index == IntOf(DivideBy(digraph_frame.i, digraph_frame.n_tenth))
           nodes == graph.nodes \cup {t1, t2}
           added == [e \in DOMAIN graph.edges \cup {<<t1, t2>>} |->
                        IF e = <<t1, t2>> THEN [color |-> Unbound] ELSE graph.edges[e]]
           color == colors_RdBu[IF index >= 0 THEN index + 1 ELSE index + 11]
       IN  IF index \in -10..9
           THEN digraph_frame' =
                    [digraph_frame EXCEPT
                        !.graph = [nodes |-> nodes,
                                   edges |-> [added EXCEPT ![<<t1, t2>>] = [color |-> color]]],
                        !.color_indices = Append(@, index),
                        !.i = @ + 1]
           ELSE digraph_frame' =
                    [digraph_frame EXCEPT
                        !.graph = [nodes |-> nodes, edges |-> added],
                        !.color_indices = Append(@, index),
                        !.outcome = "IndexError",
                        !.pc = "done"]
    /\ UNCHANGED <<dfaVars, prefixVars, fetchVars, plotVars, tuples_frame, solver_frame>>

\* the loop is exhausted; lines 101-106: graph is returned
DigraphReturn ==
    /\ digraph_frame.pc = "loop"
    /\ digraph_frame.i >= NumPairs
    /\ digraph_frame' = [digraph_frame EXCEPT !.outcome = "return", !.pc = "done"]
    /\ UNCHANGED <<dfaVars, prefixVars, fetchVars, plotVars, tuples_frame, solver_frame>>

InitDigraph ==
    /\ automaton = m1
    /\ Locals
    /\ PrefixIdle
    /\ FetchIdle
    /\ PlotIdle
    /\ tuples_frame = Unbound
    /\ solver_frame = Unbound
    /\ DigraphIdle

NextDigraph ==
    \/ \E ts \in TupleLists, n \in 1..MaxN : DigraphCall(ts, n)
    \/ DigraphStep
    \/ DigraphReturn

SpecDigraph == InitDigraph /\ [][NextDigraph]_vars

(***************************************************************************)
(* Vocabulary of the properties                                            *)
(***************************************************************************)
Done(t) == pc[t] = "done"

OverAlphabet(a, w) == \A i \in 1..Len(w) : w[i] \in a.alphabet

HasEntry(a, q, s) == q \in DOMAIN a.transitions /\ s \in DOMAIN a.transitions[q]

\* the table is a total function states x alphabet -> states and the run
\* starts inside states
IsTotal(a) ==
    /\ a.start_state \in a.states
    /\ \A q \in a.states : \A s \in a.alphabet :
            HasEntry(a, q, s) /\ a.transitions[q][s] \in a.states

\* the extended transition function of the textbook
RECURSIVE ExtendedDelta(_, _, _)
ExtendedDelta(a, q, w) ==
    IF w = <<>> THEN q ELSE ExtendedDelta(a, a.transitions[q][Head(w)], Tail(w))

\* position of the first symbol of w that is not in the alphabet or has no
\* entry in the state the run is in when it gets there; 0 when there is none
RECURSIVE FirstOffendingFrom(_, _, _, _)
FirstOffendingFrom(a, q, w, i) ==
    IF i > Len(w) THEN 0
    ELSE IF w[i] \notin a.alphabet \/ ~HasEntry(a, q, w[i]) THEN i
    ELSE FirstOffendingFrom(a, a.transitions[q][w[i]], w, i + 1)

FirstOffending(a, w) == FirstOffendingFrom(a, a.start_state, w, 1)

HasInvalidSymbol(a, w) == \E i \in 1..Len(w) : w[i] \notin a.alphabet

FirstInvalid(a, w) ==
    CHOOSE i \in 1..Len(w) :
        w[i] \notin a.alphabet /\ \A j \in 1..(i - 1) : w[j] \in a.alphabet

EndsWith(w, suffix) ==
    /\ Len(w) >= Len(suffix)
    /\ SubSeq(w, Len(w) - Len(suffix) + 1, Len(w)) = suffix

(***************************************************************************)
(* Properties                                                              *)
(***************************************************************************)

\* C1: on an automaton whose table is a total function states x alphabet ->
\* states, a call on a string over the alphabet returns TRUE exactly when the
\* state reached from start_state by the transition function, symbol by
\* symbol, is an accepting state, and returns FALSE otherwise.
C1_AcceptsIsExtendedDelta ==
    \A t \in Threads :
        (Done(t) /\ IsTotal(automaton) /\ OverAlphabet(automaton, string[t]))
        => outcome[t] = Returned(ExtendedDelta(automaton, automaton.start_state, string[t])
                                    \in automaton.accepting_states)

C1_Witness ==
    /\ Done(MainThread)
    /\ IsTotal(automaton)
    /\ OverAlphabet(automaton, string[MainThread])
    /\ Len(string[MainThread]) >= 2
    /\ current_state[MainThread] # automaton.start_state
    /\ outcome[MainThread] = Returned(TRUE)

\* C2 as stated: m1 accepts exactly the strings over {0,1} that end in "11".
C2_EndsInTwoOnes ==
    \A t \in Threads :
        (Done(t) /\ automaton = m1 /\ OverAlphabet(automaton, string[t]))
        => outcome[t] = Returned(EndsWith(string[t], <<"1", "1">>))

\* C2 as amended: m1 accepts exactly the strings over {0,1} that end in
\* three consecutive 1s ("111").
C2_EndsInThreeOnes ==
    \A t \in Threads :
        (Done(t) /\ automaton = m1 /\ OverAlphabet(automaton, string[t]))
        => outcome[t] = Returned(EndsWith(string[t], <<"1", "1", "1">>))

C2_Witness ==
    /\ Done(MainThread)
    /\ automaton = m1
    /\ Len(string[MainThread]) >= 4
    /\ EndsWith(string[MainThread], <<"0", "1", "1", "1">>)
    /\ outcome[MainThread] = Returned(TRUE)

\* C3: on m1, accepts("111") and accepts("010111") return TRUE, and
\* accepts("101"), accepts("101110") and accepts("") return FALSE.
C3_Examples ==
    \A t \in Threads :
        (Done(t) /\ automaton = m1) =>
            /\ string[t] = <<"1", "1", "1">> => outcome[t] = Returned(TRUE)
            /\ string[t] = <<"0", "1", "0", "1", "1", "1">> => outcome[t] = Returned(TRUE)
            /\ string[t] = <<"1", "0", "1">> => outcome[t] = Returned(FALSE)
            /\ string[t] = <<"1", "0", "1", "1", "1", "0">> => outcome[t] = Returned(FALSE)
            /\ string[t] = <<>> => outcome[t] = Returned(FALSE)

C3_Witness ==
    /\ Done(MainThread)
    /\ automaton = m1
    /\ string[MainThread] = <<"0", "1", "0", "1", "1", "1">>
    /\ outcome[MainThread] = Returned(TRUE)

\* C4 as stated: a call on a string with at least one symbol outside the
\* alphabet ends with the invalid-symbol error (ValueError), on any automaton.
C4_AlwaysValueError ==
    \A t \in Threads :
        (Done(t) /\ HasInvalidSymbol(automaton, string[t]))
        => outcome[t].kind = "ValueError"

\* C4 as amended: a call on a string with at least one symbol outside the
\* alphabet never returns a boolean; it ends with the invalid-symbol error
\* when every (state, symbol) pair the run consumes before the first such
\* symbol has an entry in the table, and with the undefined-transition error
\* (KeyError) of the first missing entry otherwise.
C4_ErrorOnInvalidSymbol ==
    \A t \in Threads :
        (Done(t) /\ HasInvalidSymbol(automaton, string[t])) =>
            /\ outcome[t].kind # "return"
            /\ outcome[t].kind =
                    IF FirstOffending(automaton, string[t]) = FirstInvalid(automaton, string[t])
                    THEN "ValueError" ELSE "KeyError"

C4_Witness ==
    /\ Done(MainThread)
    /\ Len(string[MainThread]) >= 2
    /\ string[MainThread][1] \in automaton.alphabet
    /\ string[MainThread][2] \notin automaton.alphabet
    /\ pos[MainThread] = 2
    /\ outcome[MainThread].kind = "ValueError"

\* C5: the invalid-symbol error names the offending symbol: the arguments of
\* the raised error contain the first symbol of the string that is not in
\* the alphabet.
C5_ErrorNamesSymbol ==
    \A t \in Threads :
        (Done(t) /\ outcome[t].kind = "ValueError") =>
            \E i \in 1..Len(outcome[t].args) :
                outcome[t].args[i] = string[t][FirstInvalid(automaton, string[t])]

\* C6: on a string over the alphabet whose run reaches a (state, symbol) pair
\* without an entry (no row for the state, or a row without the symbol), the
\* call ends with KeyError, which is neither the ValueError of an invalid
\* symbol nor a boolean, and current_state is still the state at the gap.
C6_UndefinedTransition ==
    \A t \in Threads :
        (Done(t) /\ OverAlphabet(automaton, string[t])
                 /\ FirstOffending(automaton, string[t]) # 0) =>
            /\ outcome[t].kind = "KeyError"
            /\ outcome[t].kind \notin {"ValueError", "return"}
            /\ pos[t] = FirstOffending(automaton, string[t])
            /\ ~HasEntry(automaton, current_state[t], string[t][pos[t]])

C6_WitnessNoRow ==
    /\ Done(MainThread)
    /\ OverAlphabet(automaton, string[MainThread])
    /\ pos[MainThread] >= 2
    /\ pos[MainThread] <= Len(string[MainThread])
    /\ current_state[MainThread] \notin DOMAIN automaton.transitions
    /\ outcome[MainThread].kind = "KeyError"

\* C7: a step that consumes a symbol outside the alphabet raises ValueError
\* without consulting the table: the run stops at that symbol in the same
\* state, also when the state has no row, and KeyError is not raised.
C7_AlphabetCheckedFirst ==
    [][\A t \in Threads :
        (/\ pc[t] = "loop"
         /\ HasNext(t)
         /\ Symbol(t) \notin automaton.alphabet
         /\ <<pc[t], pos[t], string[t]>> # <<pc'[t], pos'[t], string'[t]>>)
        => (/\ pc'[t] = "done"
            /\ outcome'[t].kind = "ValueError"
            /\ pos'[t] = pos[t]
            /\ current_state'[t] = current_state[t])]_vars

C7_Witness ==
    /\ Done(MainThread)
    /\ HasNext(MainThread)
    /\ Symbol(MainThread) \notin automaton.alphabet
    /\ current_state[MainThread] \notin DOMAIN automaton.transitions
    /\ outcome[MainThread].kind = "ValueError"

\* C8: on the empty string a call takes no transition, raises nothing and
\* returns whether start_state is an accepting state, on every automaton.
C8_EmptyInput ==
    \A t \in Threads :
        (Done(t) /\ string[t] = <<>>) =>
            /\ outcome[t] = Returned(automaton.start_state \in automaton.accepting_states)
            /\ pos[t] = 1
            /\ current_state[t] = automaton.start_state

C8_Witness ==
    /\ Done(MainThread)
    /\ string[MainThread] = <<>>
    /\ automaton.start_state \notin DOMAIN automaton.transitions
    /\ automaton.start_state \notin automaton.states
    /\ outcome[MainThread] = Returned(TRUE)

\* C9: a finished call has exactly one of three outcomes.  Without an
\* offending position every symbol is consumed and a boolean is returned.
\* Otherwise the symbols before the first offending position, and no others,
\* are consumed by transitions, and the error is the one of that position:
\* ValueError for a symbol outside the alphabet, KeyError for a missing entry.
C9_FirstErrorAborts ==
    \A t \in Threads :
        Done(t) =>
            /\ outcome[t].kind \in {"return", "ValueError", "KeyError"}
            /\ FirstOffending(automaton, string[t]) = 0 =>
                    /\ outcome[t].kind = "return"
                    /\ pos[t] = Len(string[t]) + 1
            /\ FirstOffending(automaton, string[t]) # 0 =>
                    /\ pos[t] = FirstOffending(automaton, string[t])
                    /\ current_state[t] =
                            ExtendedDelta(automaton, automaton.start_state,
                                          SubSeq(string[t], 1, pos[t] - 1))
                    /\ outcome[t].kind =
                            IF string[t][pos[t]] \notin automaton.alphabet
                            THEN "ValueError" ELSE "KeyError"

C9_Witness ==
    /\ Done(MainThread)
    /\ pos[MainThread] = 2
    /\ Len(string[MainThread]) = 3
    /\ string[MainThread][2] \in automaton.alphabet
    /\ string[MainThread][3] \notin automaton.alphabet
    /\ outcome[MainThread].kind = "KeyError"

\* C10: a call on a string over the alphabet that repeats the string of the
\* call before it, on the same automaton, has the same outcome as that call.
C10_Deterministic ==
    \A t \in Threads :
        (Done(t) /\ last[t].kind # "none" /\ OverAlphabet(automaton, string[t]))
        => outcome[t] = last[t]

C10_Witness ==
    /\ Done(MainThread)
    /\ last[MainThread] = Returned(TRUE)
    /\ OverAlphabet(automaton, string[MainThread])
    /\ Len(string[MainThread]) >= 2
    /\ current_state[MainThread] # automaton.start_state
    /\ outcome[MainThread] = Returned(TRUE)

\* every target of the table and start_state are members of states
IsClosed(a) ==
    /\ a.start_state \in a.states
    /\ \A q \in DOMAIN a.transitions : \A s \in DOMAIN a.transitions[q] :
            a.transitions[q][s] \in a.states

\* some proper prefix of w (the empty one included) leads to an accepting
\* state; only used on runs without an offending position
PassesAccepting(a, w) ==
    \E k \in 0..(Len(w) - 1) :
        ExtendedDelta(a, a.start_state, SubSeq(w, 1, k)) \in a.accepting_states

\* C11: whatever calls came before it, also calls that ended in an error
\* part-way through their string, a finished call on w has the outcome that
\* accepts(w) has in a new frame on the automaton as constructed: the run
\* started from start_state.
C11_RunStartsFresh ==
    \A t \in Threads :
        Done(t) => outcome[t] = accepts(automaton, string[t])

C11_Witness ==
    /\ Done(MainThread)
    /\ last[MainThread].kind = "KeyError"
    /\ pos[MainThread] >= 2
    /\ current_state[MainThread] # automaton.start_state
    /\ outcome[MainThread].kind = "KeyError"

\* C12: no step of accepts, whether it consumes a symbol, returns or raises,
\* changes the stored states, alphabet, transitions, start_state or
\* accepting_states.
C12_AutomatonUnchanged ==
    [][/\ automaton'.states = automaton.states
       /\ automaton'.alphabet = automaton.alphabet
       /\ automaton'.transitions = automaton.transitions
       /\ automaton'.start_state = automaton.start_state
       /\ automaton'.accepting_states = automaton.accepting_states]_vars

C12_Witness ==
    /\ Done(MainThread)
    /\ last[MainThread].kind = "ValueError"
    /\ pos[MainThread] = 3
    /\ current_state[MainThread] # automaton.start_state
    /\ outcome[MainThread].kind = "ValueError"

\* C14: an automaton with a partial table is constructed without error, and
\* a call on it returns a boolean for every string over the alphabet whose
\* run meets only pairs that have an entry; KeyError is raised only at the
\* first pair without an entry, after the pairs before it were consumed.
C14_LazyTotality ==
    \A t \in Threads :
        Done(t) =>
            /\ (OverAlphabet(automaton, string[t])
                    /\ FirstOffending(automaton, string[t]) = 0)
                => outcome[t] = Returned(ExtendedDelta(automaton, automaton.start_state,
                                            string[t]) \in automaton.accepting_states)
            /\ outcome[t].kind = "KeyError" =>
                    /\ pos[t] = FirstOffending(automaton, string[t])
                    /\ ~HasEntry(automaton, current_state[t], string[t][pos[t]])

C14_Witness ==
    /\ Done(MainThread)
    /\ ~IsTotal(automaton)
    /\ automaton.start_state \in automaton.states
    /\ \E q \in automaton.states : q \notin DOMAIN automaton.transitions
    /\ Len(string[MainThread]) >= 2
    /\ OverAlphabet(automaton, string[MainThread])
    /\ outcome[MainThread].kind = "return"

\* C15: a call does not return while symbols remain, also when the current
\* state is accepting; the boolean it returns is membership of the state
\* held after the last symbol, so a run through an accepting state that ends
\* in a non-accepting one returns FALSE.
C15_AcceptingDoesNotHalt ==
    \A t \in Threads :
        /\ (pc[t] \in {"loop", "done"} /\ HasNext(t)) => outcome[t].kind # "return"
        /\ (Done(t) /\ outcome[t].kind = "return") =>
                /\ pos[t] = Len(string[t]) + 1
                /\ outcome[t].value = (ExtendedDelta(automaton, automaton.start_state,
                                            string[t]) \in automaton.accepting_states)

C15_Witness ==
    /\ Done(MainThread)
    /\ Len(string[MainThread]) >= 2
    /\ OverAlphabet(automaton, string[MainThread])
    /\ FirstOffending(automaton, string[MainThread]) = 0
    /\ PassesAccepting(automaton, string[MainThread])
    /\ outcome[MainThread] = Returned(FALSE)

\* C20: when start_state is in states and every target of the table is in
\* states, current_state is a member of states at every point of a run.
C20_CurrentStateInStates ==
    IsClosed(automaton) =>
        \A t \in Threads :
            pc[t] \in {"loop", "done"} => current_state[t] \in automaton.states

C20_Witness ==
    /\ IsClosed(automaton)
    /\ automaton.states = {"q0"}
    /\ "q1" \in DOMAIN automaton.transitions
    /\ Done(MainThread)
    /\ pos[MainThread] >= 3
    /\ outcome[MainThread].kind = "return"

\* the state a run of its own holds after the first n symbols of w, when it
\* gets that far
SoloState(a, w, n) ==
    IF FirstOffending(a, SubSeq(w, 1, n)) = 0
    THEN ExtendedDelta(a, a.start_state, SubSeq(w, 1, n))
    ELSE Unbound

\* C13: under every interleaving of the steps of the threads' calls on the
\* one automaton, each call holds at every point the state a run of its own
\* would hold there, and ends with the outcome (boolean or error) it has
\* when executed alone.
C13_NoInterference ==
    \A t \in Threads :
        /\ pc[t] \in {"loop", "done"} =>
                current_state[t] = SoloState(automaton, string[t], pos[t] - 1)
        /\ Done(t) => outcome[t] = accepts(automaton, string[t])

C13_Witness ==
    /\ Done(1)
    /\ Len(string[1]) >= 2
    /\ outcome[1] = Returned(TRUE)
    /\ pc[2] = "loop"
    /\ pos[2] = 2
    /\ HasNext(2)
    /\ current_state[2] # current_state[1]

\* C16: a call on a string of length n ends: it returns its boolean after
\* exactly n transition lookups, or raises after fewer than n lookups that
\* succeeded; the position never passes n + 1 and every call that has begun
\* finishes, also on a table whose transition graph has cycles.
C16_Terminates ==
    /\ [](\A t \in Threads :
            /\ pos[t] <= Len(string[t]) + 1
            /\ (Done(t) /\ outcome[t].kind = "return") => pos[t] - 1 = Len(string[t])
            /\ (Done(t) /\ outcome[t].kind # "return") => pos[t] - 1 < Len(string[t]))
    /\ \A t \in Threads : (pc[t] = "loop") ~> Done(t)

C16_Witness ==
    /\ Done(MainThread)
    /\ Len(string[MainThread]) >= 2
    /\ pos[MainThread] = Len(string[MainThread]) + 1
    /\ automaton.transitions[automaton.start_state][string[MainThread][1]] = automaton.start_state
    /\ current_state[MainThread] = automaton.start_state
    /\ outcome[MainThread].kind = "return"

\* C17: remove_prefix removes the prefix 'uniprotkb:' and nothing else: a
\* word that starts with it comes back without exactly its first 10
\* characters, a word that starts with 'ensembl:' comes back unchanged, and
\* any other word raises ValueError.
C17_RemovesExactlyPrefix ==
    word # Unbound =>
        /\ StartsWith(word, prefix1) =>
                prefix_outcome = PrefixReturned(SubSeq(word, Len(prefix1) + 1, Len(word)))
        /\ (~StartsWith(word, prefix1) /\ StartsWith(word, prefix2)) =>
                prefix_outcome = PrefixReturned(word)
        /\ (~StartsWith(word, prefix1) /\ ~StartsWith(word, prefix2)) =>
                prefix_outcome.kind = "ValueError"

FetchDone == fetch_pc = "done"

Succeeded == \E k \in 1..Len(attempts) : attempts[k] = "ok"

\* C18: fetch_data makes its attempts one after another and stops at the
\* first one in which the request and the decoding both succeed: it has then
\* returned that attempt's data and sends nothing more; it never sends more
\* than num_tries requests; and an attempt whose body does not decode counts
\* as failed and is followed by the next index.
C18_StopsAtFirstSuccess ==
    /\ requests <= num_tries
    /\ requests = Len(attempts) + (IF fetch_pc = "json" THEN 1 ELSE 0)
    /\ fetch_pc \in {"for", "json"} =>
            /\ fetch_i = Len(attempts)
            /\ \A k \in 1..Len(attempts) : attempts[k] \in {"get_failed", "json_failed"}
    /\ Succeeded =>
            /\ FetchDone
            /\ attempts[Len(attempts)] = "ok"
            /\ \A k \in 1..(Len(attempts) - 1) : attempts[k] # "ok"
            /\ Decodable(fetch_r)
            /\ fetch_outcome = FetchReturned(Json(fetch_r))
    /\ (FetchDone /\ fetch_outcome.kind = "return") => Succeeded

C18_Witness ==
    /\ FetchDone
    /\ Len(attempts) >= 3
    /\ attempts[1] = "json_failed"
    /\ attempts[2] = "get_failed"
    /\ attempts[Len(attempts)] = "ok"
    /\ fetch_outcome = FetchReturned("bindings_b")

\* C19: fetch_data raises ValueError('Data fetching failed.') exactly when
\* all num_tries attempts failed, after exactly num_tries requests, and so
\* without any request when num_tries = 0; what it returns is the value
\* decoded in the attempt that succeeded, never an unbound or stale one.
C19_RaisesWhenAllFail ==
    FetchDone =>
        /\ (fetch_outcome.kind = "ValueError") <=> ~Succeeded
        /\ fetch_outcome.kind \in {"ValueError", "return"}
        /\ fetch_outcome.kind = "ValueError" =>
                /\ fetch_outcome.args = <<"Data fetching failed.">>
                /\ Len(attempts) = num_tries
                /\ requests = num_tries
        /\ fetch_outcome.kind = "return" =>
                /\ fetch_outcome.value # Unbound
                /\ fetch_outcome.value = Json(fetch_r)
                /\ fetch_outcome.value = data

C19_Witness ==
    /\ FetchDone
    /\ num_tries >= 2
    /\ requests = num_tries
    /\ attempts[1] = "get_failed"
    /\ attempts[num_tries] = "json_failed"
    /\ fetch_outcome.kind = "ValueError"

C19_WitnessZero ==
    /\ FetchDone
    /\ num_tries = 0
    /\ requests = 0
    /\ fetch_outcome.kind = "ValueError"

\* C21: plot_structure leaves the automaton as it is, and the graph
\* description it builds mirrors the automaton: the first node is the hidden
\* node "__start" and every state has exactly one node after it, which
\* carries the border marking exactly when the state is accepting; the first
\* edge is the hidden edge from "__start" to start_state and every entry of
\* the transition table has exactly one edge (source, target, label = symbol)
\* after it.
Plotted == data_jgf # NoGraph

Marked(node) == "metadata" \in DOMAIN node /\ "border_size" \in DOMAIN node.metadata

Entries(a) ==
    UNION {{<<q, s>> : s \in DOMAIN a.transitions[q]} : q \in DOMAIN a.transitions}

MirrorsNodes(a, nodes) ==
    /\ Len(nodes) = Cardinality(a.states) + 1
    /\ nodes[1].id = "__start"
    /\ \A q \in a.states :
        /\ Cardinality({j \in 2..Len(nodes) : nodes[j].id = q}) = 1
        /\ \A j \in 2..Len(nodes) :
            nodes[j].id = q => (nodes[j].label = q /\ (Marked(nodes[j]) <=> q \in a.accepting_states))

MirrorsEdges(a, edges) ==
    /\ Len(edges) = Cardinality(Entries(a)) + 1
    /\ edges[1].source = "__start" /\ edges[1].target = a.start_state
    /\ \A e \in Entries(a) :
        Cardinality({j \in 2..Len(edges) :
            /\ edges[j].source = e[1]
            /\ edges[j].label = e[2]
            /\ edges[j].target = a.transitions[e[1]][e[2]]}) = 1

C21_PlotMirrorsAutomaton ==
    [][/\ automaton' = automaton
       /\ Plotted' => (MirrorsNodes(automaton, data_jgf'.graph.nodes)
                        /\ MirrorsEdges(automaton, data_jgf'.graph.edges))]_vars

C21_Witness ==
    /\ Plotted
    /\ automaton = m1
    /\ Len(data_jgf.graph.nodes) = 5
    /\ Len(data_jgf.graph.edges) = 9
    /\ \E j \in 2..5 : Marked(data_jgf.graph.nodes[j])
    /\ \E j \in 2..5 : ~Marked(data_jgf.graph.nodes[j])

\* C22: for k >= 1, text_to_k_tuples(text, k) lists pieces of exactly k
\* digits each, and the pieces concatenated in order are the text without
\* its first two characters.
RECURSIVE Concat(_)
Concat(pieces) == IF pieces = <<>> THEN <<>> ELSE Head(pieces) \o Concat(Tail(pieces))

TuplesReturned == tuples_frame.k >= 1

C22_SplitsIntoKTuples ==
    TuplesReturned =>
        LET text == tuples_frame.text
            k_tuples == tuples_frame.result
        IN  /\ \A j \in 1..Len(k_tuples) : Len(k_tuples[j]) = tuples_frame.k
            /\ Concat(k_tuples) = SubSeq(text, 3, Len(text))

\* what does hold: the pieces concatenate to the text without its first two
\* characters, every piece but the last has k characters, and the last has
\* between 1 and k
TuplesAllButLastFull ==
    TuplesReturned =>
        LET text == tuples_frame.text
            k_tuples == tuples_frame.result
        IN  /\ Concat(k_tuples) = SubSeq(text, 3, Len(text))
            /\ \A j \in 1..Len(k_tuples) :
                /\ j < Len(k_tuples) => Len(k_tuples[j]) = tuples_frame.k
                /\ Len(k_tuples[j]) \in 1..tuples_frame.k

\* C23: for every num_steps >= 0, solver returns the time sequence
\* 0..num_steps-1 and, for each state component, a sequence of length
\* num_steps whose first entry is the start state's component and whose
\* entry i+1 is the component of rhs_function applied to the state at entry
\* i; rhs_function is called num_steps-1 times when num_steps >= 1.
SolverDone == solver_frame.pc = "done"

\* the value returned, line 42
SolverResult == <<solver_frame.time_sequence, solver_frame.state_sequence>>

TimeOf(result) == result[1]

ComponentsOf(result) == result[2]

StateAt(Y, i) == [c \in 1..Len(Y) |-> Y[c][i]]

FollowsRhs(Y) ==
    \A c \in 1..Len(Y) :
        /\ Len(Y[c]) >= 1 => Y[c][1] = solver_frame.state_start[c]
        /\ \A i \in 1..(Len(Y[c]) - 1) :
            Y[c][i + 1] = ApplyRhs(solver_frame.rhs_function, StateAt(Y, i))[c]

C23_SolverSequences ==
    SolverDone =>
        LET t == TimeOf(SolverResult)
            Y == ComponentsOf(SolverResult)
            num_steps == solver_frame.num_steps
        IN  /\ t = [j \in 1..num_steps |-> j - 1]
            /\ Len(Y) = Len(solver_frame.state_start)
            /\ \A c \in 1..Len(Y) : Len(Y[c]) = num_steps
            /\ FollowsRhs(Y)
            /\ num_steps >= 1 => solver_frame.rhs_calls = num_steps - 1

\* what does hold: the claim for num_steps >= 1; for num_steps = 0 the time
\* sequence is empty, every component sequence has the one entry of the
\* start state, and rhs_function is not called
SolverSequencesFromOne ==
    SolverDone =>
        LET t == TimeOf(SolverResult)
            Y == ComponentsOf(SolverResult)
            num_steps == solver_frame.num_steps
        IN  /\ t = [j \in 1..num_steps |-> j - 1]
            /\ Len(Y) = Len(solver_frame.state_start)
            /\ FollowsRhs(Y)
            /\ num_steps >= 1 =>
                    /\ \A c \in 1..Len(Y) : Len(Y[c]) = num_steps
                    /\ solver_frame.rhs_calls = num_steps - 1
            /\ num_steps = 0 =>
                    /\ \A c \in 1..Len(Y) : Y[c] = <<solver_frame.state_start[c]>>
                    /\ solver_frame.rhs_calls = 0

\* C24: in first_n_tuples_to_digraph(tuples, n) with n >= 1, whatever the
\* length of tuples, the colour index computed for pair number i is
\* int(i / (n/10)), the integer part of 10*i/n, and lies in 0..9, so the
\* lookup in the colour list never raises IndexError; and the indices do not
\* decrease from one pair to the next.
C24_ColourIndexInRange ==
    LET color_indices == digraph_frame.color_indices
    IN  /\ digraph_frame.outcome # "IndexError"
        /\ \A j \in 1..Len(color_indices) :
            /\ color_indices[j] = (10 * (j - 1)) \div digraph_frame.n
            /\ color_indices[j] \in 0..9
        /\ \A j \in 1..(Len(color_indices) - 1) : color_indices[j] <= color_indices[j + 1]

C24_Witness ==
    LET color_indices == digraph_frame.color_indices
    IN  /\ digraph_frame.pc = "done"
        /\ digraph_frame.outcome = "return"
        /\ digraph_frame.n >= 2
        /\ Len(digraph_frame.tuples) > digraph_frame.n
        /\ Len(color_indices) = digraph_frame.n - 1
        /\ color_indices[1] = 0
        /\ color_indices[Len(color_indices)] = 9
        /\ Cardinality(DOMAIN digraph_frame.graph.edges) = 3
====
